---- MODULE Spec2Model ----
(***************************************************************************)
(* A model of FlowDoc (src/python/flowdoc.py): the indentation parser      *)
(* ParseFlow, the serialiser StringifyFlow, the model overlay              *)
(* (_apply_model_to_dict, ParseFlowWithModel) and ModelDefinition.         *)
(*                                                                         *)
(* Text is a sequence of one-character strings.  A Python value is a       *)
(* record [t |-> tag, v |-> payload]:                                      *)
(*   "str"   payload: the text            "bool"  payload: TRUE / FALSE    *)
(*   "int"   payload: the integer         "float" payload: <<n, k>>, the   *)
(*   "list"  payload: sequence of values           decimal n / 10^k        *)
(*   "map"   payload: sequence of [k |-> key text, x |-> value], the       *)
(*           insertion-ordered dict       "none"  Python's None            *)
(* int() and float() are modelled on signed decimal digit strings; the     *)
(* inputs of the model hold no underscore, exponent, "inf" or "nan".       *)
(***************************************************************************)
EXTENDS Integers, Sequences, FiniteSets, TLC

VARIABLES
    pc,        \* control position of the call in progress
    text,      \* ParseFlow: the document text
    lines,     \* ParseFlow: the tokenized lines
    ln,        \* ParseFlow: index of the line the loop is at
    stack,     \* ParseFlow: the indentation stack of (level, mapping)
    root,      \* ParseFlow: the root mapping
    obj,       \* the tree handed to StringifyFlow / _apply_model_to_dict
    registry,  \* ParseFlowWithModel: the registry in effect (or None)
    model,     \* the ModelDefinition in use
    result,    \* the value returned by the call, None before it returns
    again,     \* _apply_model_to_dict applied to its own result
    calls      \* the fields handed to add_field so far, in order

vars == <<pc, text, lines, ln, stack, root, obj, registry, model, result, again, calls>>

(***************************************************************************)
(* Bounds of the model.                                                    *)
(***************************************************************************)
MaxLines == 4
MaxIndent == 2
MaxBodyLines == 3
MaxEntries == 2
MaxAdds == 3

(***************************************************************************)
(* Values.                                                                 *)
(***************************************************************************)
NoneV == [t |-> "none", v |-> FALSE]
StrV(s) == [t |-> "str", v |-> s]
BoolV(b) == [t |-> "bool", v |-> b]
IntV(n) == [t |-> "int", v |-> n]
FloatV(n, k) == [t |-> "float", v |-> <<n, k>>]
ListV(s) == [t |-> "list", v |-> s]
MapV(s) == [t |-> "map", v |-> s]
EmptyMap == MapV(<< >>)

IsDict(x) == x.t = "map"
IsList(x) == x.t = "list"

\* dict: key lookup, membership and item assignment (an existing key keeps
\* its position, a new key is appended).
HasKey(m, k) == \E i \in 1..Len(m.v) : m.v[i].k = k
Get(m, k) == LET i == CHOOSE j \in 1..Len(m.v) : m.v[j].k = k IN m.v[i].x
Put(m, k, x) ==
    IF HasKey(m, k)
    THEN [m EXCEPT !.v = [i \in 1..Len(m.v) |->
                            IF m.v[i].k = k THEN [k |-> k, x |-> x] ELSE m.v[i]]]
    ELSE [m EXCEPT !.v = Append(m.v, [k |-> k, x |-> x])]
\* {k: v for k, v in m.items() if k not in ks}
Without(m, ks) == [m EXCEPT !.v = SelectSeq(m.v, LAMBDA e : e.k \notin ks)]
Keys(m) == {m.v[i].k : i \in 1..Len(m.v)}

(***************************************************************************)
(* Text helpers: str.strip, str.split, str.splitlines, str.replace.        *)
(***************************************************************************)
IsSpace(c) == c \in {" ", "\t", "\n", "\r"}
Digits == <<"0", "1", "2", "3", "4", "5", "6", "7", "8", "9">>
IsDigit(c) == \E d \in 1..10 : Digits[d] = c
DigitVal(c) == (CHOOSE d \in 1..10 : Digits[d] = c) - 1

RECURSIVE LStrip(_)
LStrip(s) == IF s # << >> /\ IsSpace(Head(s)) THEN LStrip(Tail(s)) ELSE s
RECURSIVE RStrip(_)
RStrip(s) ==
    IF s # << >> /\ IsSpace(s[Len(s)]) THEN RStrip(SubSeq(s, 1, Len(s) - 1)) ELSE s
Strip(s) == LStrip(RStrip(s))

Contains(s, c) == \E i \in 1..Len(s) : s[i] = c
IndexOf(s, c) == CHOOSE i \in 1..Len(s) : s[i] = c /\ \A j \in 1..(i - 1) : s[j] # c
\* s[1:-1]
Inner(s) == SubSeq(s, 2, Len(s) - 1)

\* s.split(c, 1)
SplitFirst(s, c) ==
    IF Contains(s, c)
    THEN <<SubSeq(s, 1, IndexOf(s, c) - 1), SubSeq(s, IndexOf(s, c) + 1, Len(s))>>
    ELSE <<s>>
\* s.split(c)
RECURSIVE SplitAll(_, _)
SplitAll(s, c) ==
    IF Contains(s, c)
    THEN <<SubSeq(s, 1, IndexOf(s, c) - 1)>>
             \o SplitAll(SubSeq(s, IndexOf(s, c) + 1, Len(s)), c)
    ELSE <<s>>
\* s.splitlines(): no empty last piece after a final line break
SplitLines(s) ==
    LET parts == SplitAll(s, "\n")
    IN  IF parts[Len(parts)] = << >> THEN SubSeq(parts, 1, Len(parts) - 1) ELSE parts
\* text.replace('\t', '  ')
RECURSIVE ExpandTabs(_)
ExpandTabs(s) ==
    IF s = << >> THEN << >>
    ELSE (IF Head(s) = "\t" THEN <<" ", " ">> ELSE <<Head(s)>>) \o ExpandTabs(Tail(s))
\* sep.join(parts)
RECURSIVE Join(_, _)
Join(parts, sep) ==
    IF parts = << >> THEN << >>
    ELSE IF Len(parts) = 1 THEN parts[1]
    ELSE parts[1] \o sep \o Join(Tail(parts), sep)
RECURSIVE Spaces(_)
Spaces(n) == IF n <= 0 THEN << >> ELSE <<" ">> \o Spaces(n - 1)

\* int(v) and float(v) on signed decimal text; str(n) and str(x).
Unsigned(s) == IF s # << >> /\ s[1] \in {"-", "+"} THEN Tail(s) ELSE s
Sign(s) == IF s # << >> /\ s[1] = "-" THEN -1 ELSE 1
AllDigits(s) == \A i \in 1..Len(s) : IsDigit(s[i])
RECURSIVE DigitsVal(_)
DigitsVal(s) ==
    IF s = << >> THEN 0 ELSE 10 * DigitsVal(SubSeq(s, 1, Len(s) - 1)) + DigitVal(s[Len(s)])
IsIntText(s) == Unsigned(s) # << >> /\ AllDigits(Unsigned(s))
IntOf(s) == Sign(s) * DigitsVal(Unsigned(s))
IsFloatText(s) ==
    LET u == Unsigned(s)
        p == SplitFirst(u, ".")
    IN  /\ \A i \in 1..Len(p) : AllDigits(p[i])
        /\ \E i \in 1..Len(p) : p[i] # << >>
RECURSIVE Normal(_, _)
Normal(n, k) == IF k > 0 /\ n % 10 = 0 THEN Normal(n \div 10, k - 1) ELSE <<n, k>>
FloatOf(s) ==
    LET u == Unsigned(s)
        p == SplitFirst(u, ".")
        frac == IF Len(p) = 2 THEN p[2] ELSE << >>
        nk == Normal(DigitsVal(p[1] \o frac), Len(frac))
    IN  FloatV(Sign(s) * nk[1], nk[2])
RECURSIVE NatText(_)
NatText(n) == IF n < 10 THEN <<Digits[n + 1]>> ELSE NatText(n \div 10) \o <<Digits[(n % 10) + 1]>>
IntText(n) == IF n < 0 THEN <<"-">> \o NatText(-n) ELSE NatText(n)
RECURSIVE Pow10(_)
Pow10(k) == IF k = 0 THEN 1 ELSE 10 * Pow10(k - 1)
RECURSIVE PadZero(_, _)
PadZero(s, k) == IF Len(s) >= k THEN s ELSE PadZero(<<"0">> \o s, k)
FloatText(n, k) ==
    LET a == IF n < 0 THEN -n ELSE n
        sgn == IF n < 0 THEN <<"-">> ELSE << >>
    IN  IF k = 0 THEN sgn \o NatText(a) \o <<".", "0">>
        ELSE sgn \o NatText(a \div Pow10(k)) \o <<".">> \o PadZero(NatText(a % Pow10(k)), k)

TxtTrue == <<"t", "r", "u", "e">>
TxtFalse == <<"f", "a", "l", "s", "e">>
TxtPyTrue == <<"T", "r", "u", "e">>
TxtPyFalse == <<"F", "a", "l", "s", "e">>
TxtNone == <<"N", "o", "n", "e">>

(***************************************************************************)
(* Core parsing: _tokenize_lines, _parse_value, ParseFlow.                 *)
(***************************************************************************)
_tokenize_lines(t) ==
    LET ls == SplitLines(ExpandTabs(t))
        nc == [i \in 1..Len(ls) |-> SplitFirst(ls[i], "#")[1]]
    IN  [i \in 1..Len(SelectSeq(nc, LAMBDA l : Strip(l) # << >>)) |->
            RStrip(SelectSeq(nc, LAMBDA l : Strip(l) # << >>)[i])]

RECURSIVE _parse_value(_)
_parse_value(raw) ==
    LET v == Strip(raw) IN
    IF v = TxtTrue THEN BoolV(TRUE)
    ELSE IF v = TxtFalse THEN BoolV(FALSE)
    ELSE IF Len(v) >= 2 /\ v[1] = "\"" /\ v[Len(v)] = "\"" /\ ~Contains(v, "\n")
         THEN StrV(Inner(v))
    ELSE IF Len(v) >= 2 /\ v[1] = "[" /\ v[Len(v)] = "]" /\ ~Contains(v, "\n")
         THEN LET inner == Strip(Inner(v))
                  parts == SplitAll(inner, ",")
              IN  IF inner = << >> THEN ListV(<< >>)
                  ELSE ListV([i \in 1..Len(parts) |-> _parse_value(Strip(parts[i]))])
    ELSE IF Contains(v, ".")
         THEN (IF IsFloatText(v) THEN FloatOf(v) ELSE StrV(v))
    ELSE IF IsIntText(v) THEN IntV(IntOf(v)) ELSE StrV(v)

\* len(re.match(r'^\s*', line).group(0))
RECURSIVE Leading(_)
Leading(l) == IF l # << >> /\ IsSpace(Head(l)) THEN 1 + Leading(Tail(l)) ELSE 0
Indent(l) == Leading(l) \div 2
Trimmed(l) == Strip(l)
IsSection(l) == Trimmed(l)[Len(Trimmed(l))] = ":"

\* A frame of the stack is [indent |-> level, path |-> keys from the root to
\* its mapping].  Every mapping on the stack is reachable from the root (a
\* line writes only into the top frame, after the frames above it are popped),
\* so the path names the same dict as Python's reference does.
Frame(level, path) == [indent |-> level, path |-> path]

RECURSIVE PopWhileGE(_, _)
PopWhileGE(st, indent) ==
    IF st # << >> /\ st[Len(st)].indent >= indent
    THEN PopWhileGE(SubSeq(st, 1, Len(st) - 1), indent) ELSE st
RECURSIVE PopWhileGT(_, _)
PopWhileGT(st, indent) ==
    IF st # << >> /\ st[Len(st)].indent > indent
    THEN PopWhileGT(SubSeq(st, 1, Len(st) - 1), indent) ELSE st
SectionPop(st, indent) == PopWhileGE(st, indent)
AssignPop(st, indent) == PopWhileGT(st, indent)

\* stack[-1][1][key] = x, for the frame whose mapping is at `path`
RECURSIVE PutAt(_, _, _, _)
PutAt(m, path, k, x) ==
    IF path = << >> THEN Put(m, k, x)
    ELSE Put(m, Head(path), PutAt(Get(m, Head(path)), Tail(path), k, x))

ParseLocalsUnchanged == UNCHANGED <<obj, registry, model, result, again, calls>>

\* lines = _tokenize_lines(text); root = {}; stack = [(0, root)]
Tokenize ==
    /\ pc = "ParseFlow"
    /\ lines' = _tokenize_lines(text)
    /\ root' = EmptyMap
    /\ stack' = <<Frame(0, << >>)>>
    /\ ln' = 1
    /\ pc' = "loop"
    /\ UNCHANGED text
    /\ ParseLocalsUnchanged

\* a line ending with ':'.  stack[-1] of an emptied stack raises IndexError.
SectionLine ==
    /\ pc = "loop" /\ ln <= Len(lines)
    /\ IsSection(lines[ln])
    /\ LET trimmed == Trimmed(lines[ln])
           indent == Indent(lines[ln])
           key == Strip(SubSeq(trimmed, 1, Len(trimmed) - 1))
           st == SectionPop(stack, indent)
       IN  IF st = << >>
           THEN /\ pc' = "IndexError"
                /\ stack' = st
                /\ UNCHANGED <<root, ln>>
           ELSE /\ root' = PutAt(root, st[Len(st)].path, key, EmptyMap)
                /\ stack' = Append(st, Frame(indent + 1, Append(st[Len(st)].path, key)))
                /\ ln' = ln + 1
                /\ pc' = "loop"
    /\ UNCHANGED <<text, lines>>
    /\ ParseLocalsUnchanged

\* a line holding '=' and not ending with ':'
AssignLine ==
    /\ pc = "loop" /\ ln <= Len(lines)
    /\ ~IsSection(lines[ln])
    /\ Contains(Trimmed(lines[ln]), "=")
    /\ LET parts == SplitFirst(Trimmed(lines[ln]), "=")
           indent == Indent(lines[ln])
           key == Strip(parts[1])
           raw == Strip(parts[2])
           st == AssignPop(stack, indent)
       IN  IF st = << >>
           THEN /\ pc' = "IndexError"
                /\ stack' = st
                /\ UNCHANGED <<root, ln>>
           ELSE /\ root' = PutAt(root, st[Len(st)].path, key, _parse_value(raw))
                /\ stack' = st
                /\ ln' = ln + 1
                /\ pc' = "loop"
    /\ UNCHANGED <<text, lines>>
    /\ ParseLocalsUnchanged

\* any other line: continue
IgnoredLine ==
    /\ pc = "loop" /\ ln <= Len(lines)
    /\ ~IsSection(lines[ln])
    /\ ~Contains(Trimmed(lines[ln]), "=")
    /\ ln' = ln + 1
    /\ UNCHANGED <<pc, text, lines, stack, root>>
    /\ ParseLocalsUnchanged

\* return root
ParseReturn ==
    /\ pc = "loop" /\ ln > Len(lines)
    /\ pc' = "parsed"
    /\ UNCHANGED <<text, lines, ln, stack, root>>
    /\ ParseLocalsUnchanged

ParseFlow == Tokenize \/ SectionLine \/ AssignLine \/ IgnoredLine \/ ParseReturn

(***************************************************************************)
(* Serialisation: _stringify_value, _stringify_object, StringifyFlow.      *)
(***************************************************************************)
HasSpace(s) == \E i \in 1..Len(s) : IsSpace(s[i])

RECURSIVE _stringify_value(_)
_stringify_value(x) ==
    CASE x.t = "str" ->
            IF HasSpace(x.v) \/ x.v = << >> THEN <<"\"">> \o x.v \o <<"\"">> ELSE x.v
      [] x.t = "bool" -> IF x.v THEN TxtTrue ELSE TxtFalse
      [] x.t = "int" -> IntText(x.v)
      [] x.t = "float" -> FloatText(x.v[1], x.v[2])
      [] x.t = "list" ->
            <<"[">> \o Join([i \in 1..Len(x.v) |-> _stringify_value(x.v[i])], <<",", " ">>)
                \o <<"]">>
      [] OTHER -> << >>

\* The lines list of _stringify_object: a nested mapping adds two items, its
\* header and its own rendering (one item, empty for an empty mapping).
RECURSIVE _stringify_object(_, _)
RECURSIVE ObjectLines(_, _)
ObjectLines(entries, indent) ==
    IF entries = << >> THEN << >>
    ELSE LET e == Head(entries)
             pad == Spaces(indent)
         IN  (IF IsDict(e.x)
              THEN <<pad \o e.k \o <<":">>, _stringify_object(e.x, indent + 2)>>
              ELSE <<pad \o e.k \o <<" ", "=", " ">> \o _stringify_value(e.x)>>)
                 \o ObjectLines(Tail(entries), indent)
_stringify_object(o, indent) == Join(ObjectLines(o.v, indent), <<"\n">>)

StringifyFlow(o) == _stringify_object(o, 0) \o <<"\n">>

(***************************************************************************)
(* Python's == on values: dicts compare without regard to order, bool, int *)
(* and float compare by number.                                            *)
(***************************************************************************)
IsNum(x) == x.t \in {"bool", "int", "float"}
Num(x) ==
    CASE x.t = "bool" -> <<IF x.v THEN 1 ELSE 0, 0>>
      [] x.t = "int" -> <<x.v, 0>>
      [] OTHER -> x.v
RECURSIVE PyEq(_, _)
PyEq(a, b) ==
    IF IsNum(a) /\ IsNum(b) THEN Num(a) = Num(b)
    ELSE IF a.t # b.t THEN FALSE
    ELSE IF a.t = "map"
         THEN /\ Keys(a) = Keys(b)
              /\ \A k \in Keys(a) : PyEq(Get(a, k), Get(b, k))
    ELSE IF a.t = "list"
         THEN /\ Len(a.v) = Len(b.v)
              /\ \A i \in 1..Len(a.v) : PyEq(a.v[i], b.v[i])
    ELSE a.v = b.v

(***************************************************************************)
(* Mapping model support: FieldDefinition, ModelDefinition, ModelRegistry. *)
(* fields maps a full name (text) to its FieldDefinition, alias_map maps   *)
(* an alias (the value given as alias) to a full name, models maps a model *)
(* name to its ModelDefinition; each is an ordered sequence of [k, x]      *)
(* entries like a "map" value.                                             *)
(***************************************************************************)
TxtBool == <<"b", "o", "o", "l">>
TxtInt == <<"i", "n", "t">>
TxtFloat == <<"f", "l", "o", "a", "t">>
TxtDate == <<"d", "a", "t", "e">>
TxtDatetime == <<"d", "a", "t", "e", "t", "i", "m", "e">>
TxtString == <<"s", "t", "r", "i", "n", "g">>
TxtModels == <<"$", "m", "o", "d", "e", "l", "s">>
TxtUseModel == <<"u", "s", "e", "_", "m", "o", "d", "e", "l">>
TxtFields == <<"f", "i", "e", "l", "d", "s">>
TxtAlias == <<"a", "l", "i", "a", "s">>
TxtType == <<"t", "y", "p", "e">>
TxtId == <<"i", "d">>

FieldDefinition(full_name, alias, field_type, field_id) ==
    [full_name |-> full_name, alias |-> alias, field_type |-> field_type,
     field_id |-> field_id]
ModelDefinition(name) ==
    [name |-> name, fields |-> [t |-> "fields", v |-> << >>],
     alias_map |-> [t |-> "alias_map", v |-> << >>]]
NoModel == ModelDefinition(<< >>)
add_field(m, field) ==
    [m EXCEPT !.fields = Put(m.fields, field.full_name, field),
              !.alias_map = Put(m.alias_map, field.alias, field.full_name)]
ModelRegistry == [t |-> "registry", v |-> << >>]
register_model(reg, m) == Put(reg, m.name, m)
\* self.models.get(name): None for a name that is no key
Hashable(x) == x.t \notin {"list", "map"}
get_model(reg, name) ==
    IF name.t = "str" /\ HasKey(reg, name.v) THEN Get(reg, name.v) ELSE NoneV

\* str(value)
PyStr(x) ==
    CASE x.t = "str" -> x.v
      [] x.t = "bool" -> IF x.v THEN TxtPyTrue ELSE TxtPyFalse
      [] x.t = "int" -> IntText(x.v)
      [] x.t = "float" -> FloatText(x.v[1], x.v[2])
      [] OTHER -> TxtNone

\* re.match(r'^\d{4}-\d{2}-\d{2}$', v) and
\* re.match(r'^\d{4}-\d{2}-\d{2}T\d{2}:\d{2}:\d{2}', v)
MatchesAt(v, pat) ==
    /\ Len(v) >= Len(pat)
    /\ \A i \in 1..Len(pat) : IF pat[i] = "d" THEN IsDigit(v[i]) ELSE v[i] = pat[i]
DatePattern == <<"d", "d", "d", "d", "-", "d", "d", "-", "d", "d">>
DatetimePattern == DatePattern \o <<"T", "d", "d", ":", "d", "d", ":", "d", "d">>
IsDate(v) == Len(v) = Len(DatePattern) /\ MatchesAt(v, DatePattern)
IsDatetime(v) == MatchesAt(v, DatetimePattern)

\* The outcome of _parse_typed_value: the value returned, or ValueError raised.
Returns(x) == [ok |-> TRUE, val |-> x]
Raises == [ok |-> FALSE, val |-> NoneV]
_parse_typed_value(raw, field_type) ==
    LET v == Strip(raw) IN
    IF field_type = StrV(TxtBool)
    THEN (IF v = TxtTrue THEN Returns(BoolV(TRUE))
          ELSE IF v = TxtFalse THEN Returns(BoolV(FALSE)) ELSE Raises)
    ELSE IF field_type = StrV(TxtInt)
    THEN (IF IsIntText(v) THEN Returns(IntV(IntOf(v))) ELSE Raises)
    ELSE IF field_type = StrV(TxtFloat)
    THEN (IF IsFloatText(v) THEN Returns(FloatOf(v)) ELSE Raises)
    ELSE IF field_type = StrV(TxtDate)
    THEN (IF IsDate(v) THEN Returns(StrV(v)) ELSE Raises)
    ELSE IF field_type = StrV(TxtDatetime)
    THEN (IF IsDatetime(v) THEN Returns(StrV(v)) ELSE Raises)
    ELSE IF v # << >> /\ v[1] = "\"" /\ v[Len(v)] = "\"" THEN Returns(StrV(Inner(v)))
    ELSE Returns(StrV(v))

\* dict.get(k, default)
GetOr(m, k, default) == IF HasKey(m, k) THEN Get(m, k) ELSE default

\* the fields of one model of $models: the entries that are mappings, in order
RECURSIVE ExtractFields(_, _)
ExtractFields(model_def, entries) ==
    IF entries = << >> THEN model_def
    ELSE LET full_name == Head(entries).k
             field_spec == Head(entries).x
         IN  IF ~IsDict(field_spec) THEN ExtractFields(model_def, Tail(entries))
             ELSE ExtractFields(
                      add_field(model_def,
                          FieldDefinition(full_name,
                              GetOr(field_spec, TxtAlias, StrV(full_name)),
                              GetOr(field_spec, TxtType, StrV(TxtString)),
                              GetOr(field_spec, TxtId, NoneV))),
                      Tail(entries))
RECURSIVE ExtractModels(_, _)
ExtractModels(reg, entries) ==
    IF entries = << >> THEN reg
    ELSE LET model_name == Head(entries).k
             model_spec == Head(entries).x
         IN  IF ~IsDict(model_spec) \/ ~HasKey(model_spec, TxtFields)
                  \/ ~IsDict(Get(model_spec, TxtFields))
             THEN ExtractModels(reg, Tail(entries))
             ELSE ExtractModels(
                      register_model(reg,
                          ExtractFields(ModelDefinition(model_name),
                                        Get(model_spec, TxtFields).v)),
                      Tail(entries))
_extract_models_from_dict(data) ==
    IF ~HasKey(data, TxtModels) THEN NoneV
    ELSE IF ~IsDict(Get(data, TxtModels)) THEN NoneV
    ELSE ExtractModels(ModelRegistry, Get(data, TxtModels).v)

\* full_name = model.alias_map.get(key, key)
FullName(m, key) == GetOr(m.alias_map, StrV(key), key)
\* Coerce with a key that has no field definition converted as a string field
CoerceUndeclared(m, full_name, value) ==
    LET ft == IF HasKey(m.fields, full_name) THEN Get(m.fields, full_name).field_type
              ELSE StrV(TxtString)
        r == _parse_typed_value(PyStr(value), ft)
    IN  IF r.ok THEN r.val ELSE value
\* Coerce falling back to the text of the value instead of the value
CoerceText(m, full_name, value) ==
    IF HasKey(m.fields, full_name)
    THEN LET r == _parse_typed_value(PyStr(value), Get(m.fields, full_name).field_type)
         IN  IF r.ok THEN r.val ELSE StrV(PyStr(value))
    ELSE value
\* the scalar branch: typed conversion when the field is defined, the value
\* itself when the conversion raises or no field is defined
Coerce(m, full_name, value) ==
    IF HasKey(m.fields, full_name)
    THEN LET r == _parse_typed_value(PyStr(value), Get(m.fields, full_name).field_type)
         IN  IF r.ok THEN r.val ELSE value
    ELSE value

RECURSIVE _apply_model_to_dict(_, _)
RECURSIVE ApplyItems(_, _, _)
\* [_apply_model_to_dict(item, model) if isinstance(item, dict) else item ...]
ApplyList(l, m) ==
    ListV([i \in 1..Len(l.v) |->
              IF IsDict(l.v[i]) THEN _apply_model_to_dict(l.v[i], m) ELSE l.v[i]])
ApplyItems(res, entries, m) ==
    IF entries = << >> THEN res
    ELSE LET key == Head(entries).k
             value == Head(entries).x
             full_name == FullName(m, key)
         IN  ApplyItems(
                 Put(res, full_name,
                     IF IsDict(value) THEN _apply_model_to_dict(value, m)
                     ELSE IF IsList(value) THEN ApplyList(value, m)
                     ELSE Coerce(m, full_name, value)),
                 Tail(entries), m)
_apply_model_to_dict(data, m) == ApplyItems(EmptyMap, data.v, m)

(***************************************************************************)
(* ParseFlow on documents of up to MaxLines lines.  Line j is a section    *)
(* header, an assignment (indented with spaces or with tabs), a bare word  *)
(* or a comment, at any indentation level up to MaxIndent; its key is the  *)
(* j-th letter or, again, the first one.                                   *)
(***************************************************************************)
Letters == <<"a", "b", "c", "d", "e", "f">>
KeyAt(j) == <<Letters[((j - 1) % Len(Letters)) + 1]>>
RawAt(j) == IF j % 2 = 1 THEN <<"1">> ELSE <<"2">>
LineChoices ==
    [indent : 0..MaxIndent, kind : {"section", "assign"}, dup : BOOLEAN]
      \cup [indent : 0..MaxIndent, kind : {"tabbed", "word"}, dup : {FALSE}]
      \cup [indent : {0}, kind : {"comment"}, dup : {FALSE}]
RenderLine(c, j) ==
    LET key == IF c.dup THEN KeyAt(1) ELSE KeyAt(j) IN
    CASE c.kind = "section" -> Spaces(2 * c.indent) \o key \o <<":">>
      [] c.kind = "assign" -> Spaces(2 * c.indent) \o key \o <<" ", "=", " ">> \o RawAt(j)
      [] c.kind = "tabbed" ->
            [i \in 1..c.indent |-> "\t"] \o key \o <<" ", "=", " ">> \o RawAt(j)
                \o <<" ", "#", " ", "x">>
      [] c.kind = "word" -> Spaces(2 * c.indent) \o key
      [] OTHER -> <<"#", " ", "x">>
RenderDoc(cs) == Join([j \in 1..Len(cs) |-> RenderLine(cs[j], j) \o <<"\n">>], << >>)
ParseDocs == {RenderDoc(cs) : cs \in UNION {[1..n -> LineChoices] : n \in 0..MaxLines}}

IdleParse == lines = << >> /\ ln = 0 /\ stack = << >> /\ root = EmptyMap
IdleModel == registry = NoneV /\ model = NoModel
IdleResult == result = NoneV /\ again = NoneV /\ calls = << >>

InitParse ==
    /\ pc = "ParseFlow"
    /\ text \in ParseDocs
    /\ obj = EmptyMap
    /\ IdleParse /\ IdleModel /\ IdleResult
NextParse == ParseFlow
SpecParse == InitParse /\ [][NextParse]_vars

(***************************************************************************)
(* Round trip: StringifyFlow of a tree, then ParseFlow of the text.  The   *)
(* trees hold mappings (nested, empty), lists, booleans, integers and      *)
(* strings (bare, and quoted on output: with a space, with a line break,   *)
(* empty), with up to MaxEntries keys per mapping.                         *)
(***************************************************************************)
TreeKeys == {<<"a">>, <<"b">>}
TreeLeaves ==
    {BoolV(TRUE), IntV(12), StrV(<<"x">>), StrV(<<"a", " ", "b">>), StrV(<< >>),
     StrV(<<"x", "\n", "y">>),
     ListV(<< >>), ListV(<<StrV(<<"x">>), IntV(-3), BoolV(FALSE)>>)}
\* the dicts with at most MaxEntries distinct keys of ks and values of xs
Dicts(ks, xs) ==
    {MapV(s) : s \in {q \in UNION {[1..n -> [k : ks, x : xs]] : n \in 0..MaxEntries} :
                        \A i, j \in 1..Len(q) : i # j => q[i].k # q[j].k}}
Trees == Dicts(TreeKeys, TreeLeaves \cup Dicts(TreeKeys, TreeLeaves))

InitRoundTrip ==
    /\ pc = "StringifyFlow"
    /\ obj \in Trees
    /\ text = << >>
    /\ IdleParse /\ IdleModel /\ IdleResult
\* text = StringifyFlow(obj), handed to ParseFlow
Stringify ==
    /\ pc = "StringifyFlow"
    /\ text' = StringifyFlow(obj)
    /\ pc' = "ParseFlow"
    /\ UNCHANGED <<lines, ln, stack, root, obj, registry, model, result, again, calls>>
NextRoundTrip == Stringify \/ ParseFlow
SpecRoundTrip == InitRoundTrip /\ [][NextRoundTrip]_vars

(***************************************************************************)
(* ParseFlowWithModel(text, registry): ParseFlow, then the registry, then  *)
(* the use_model directive.                                                *)
(***************************************************************************)
\* for key, value in result.items(): the top-level values
RECURSIVE ApplyTopLevel(_, _, _)
ApplyTopLevel(res, entries, m) ==
    IF entries = << >> THEN res
    ELSE LET key == Head(entries).k
             value == Head(entries).x
         IN  ApplyTopLevel(
                 Put(res, key,
                     IF IsDict(value) THEN _apply_model_to_dict(value, m)
                     ELSE IF IsList(value) THEN ApplyList(value, m)
                     ELSE value),
                 Tail(entries), m)
Directive == registry # NoneV /\ HasKey(root, TxtUseModel)

\* if registry is None: registry = _extract_models_from_dict(data)
ResolveRegistry ==
    /\ pc = "parsed"
    /\ registry' = IF registry = NoneV THEN _extract_models_from_dict(root) ELSE registry
    /\ pc' = "directive"
    /\ UNCHANGED <<text, lines, ln, stack, root, obj, model, result, again, calls>>
\* registry.get_model(model_name) on a list: TypeError (unhashable)
UnhashableName ==
    /\ pc = "directive" /\ Directive
    /\ ~Hashable(Get(root, TxtUseModel))
    /\ pc' = "TypeError"
    /\ UNCHANGED <<text, lines, ln, stack, root, obj, registry, model, result, again, calls>>
\* raise ValueError(f"Model '{model_name}' not found in registry")
ModelNotFound ==
    /\ pc = "directive" /\ Directive
    /\ Hashable(Get(root, TxtUseModel))
    /\ get_model(registry, Get(root, TxtUseModel)) = NoneV
    /\ pc' = "ValueError"
    /\ UNCHANGED <<text, lines, ln, stack, root, obj, registry, model, result, again, calls>>
\* return final_result
ApplyModel ==
    /\ pc = "directive" /\ Directive
    /\ Hashable(Get(root, TxtUseModel))
    /\ get_model(registry, Get(root, TxtUseModel)) # NoneV
    /\ model' = get_model(registry, Get(root, TxtUseModel))
    /\ result' = ApplyTopLevel(EmptyMap, Without(root, {TxtUseModel, TxtModels}).v, model')
    /\ pc' = "returned"
    /\ UNCHANGED <<text, lines, ln, stack, root, obj, registry, again, calls>>
\* no model application: data, without $models if present
ReturnData ==
    /\ pc = "directive" /\ ~Directive
    /\ result' = IF HasKey(root, TxtModels) THEN Without(root, {TxtModels}) ELSE root
    /\ pc' = "returned"
    /\ UNCHANGED <<text, lines, ln, stack, root, obj, registry, model, again, calls>>
ParseFlowWithModel ==
    ParseFlow \/ ResolveRegistry \/ UnhashableName \/ ModelNotFound \/ ApplyModel \/ ReturnData

\* The registry argument: None, an empty registry, or one holding model "m"
\* with the field full_name "name", alias "n".
TxtName == <<"n", "a", "m", "e">>
FieldName == FieldDefinition(TxtName, StrV(<<"n">>), StrV(TxtString), NoneV)
ModelM == add_field(ModelDefinition(<<"m">>), FieldName)
Registries == {NoneV, ModelRegistry, register_model(ModelRegistry, ModelM)}
\* A $models block declaring model "m" (field "name", alias "n", and an entry
\* that is no mapping), each header indented two levels deeper than its
\* parent.
ModelsBlock ==
    <<Spaces(2) \o TxtModels \o <<":">>,
      Spaces(6) \o <<"m", ":">>,
      Spaces(10) \o TxtFields \o <<":">>,
      Spaces(14) \o TxtName \o <<":">>,
      Spaces(16) \o TxtAlias \o <<" ", "=", " ", "n">>,
      Spaces(14) \o <<"b", "a", "d", " ", "=", " ", "1">>>>
BodyLines ==
    {TxtUseModel \o <<" ", "=", " ", "m">>,
     TxtUseModel \o <<" ", "=", " ", "q">>,
     TxtUseModel \o <<" ", "=", " ", "[", "m", "]">>,
     <<"n", " ", "=", " ", "\"", "X", "\"">>,
     <<"s", ":">>,
     <<" ", " ", "s", ":">>,
     <<" ", " ", " ", " ", "n", " ", "=", " ", "\"", "X", "\"">>,
     TxtModels \o <<" ", "=", " ", "x">>,
     <<" ", " ">> \o TxtModels \o <<":">>,
     <<"n", "o", "t", "e">>}
ModelDocs ==
    {Join(pre \o body, <<"\n">>) \o <<"\n">> :
        pre \in {<< >>, ModelsBlock},
        body \in UNION {[1..n -> BodyLines] : n \in 0..MaxBodyLines}}

InitModel ==
    /\ pc = "ParseFlow"
    /\ text \in ModelDocs
    /\ registry \in Registries
    /\ obj = EmptyMap /\ model = NoModel
    /\ IdleParse /\ IdleResult
NextModel == ParseFlowWithModel
SpecModel == InitModel /\ [][NextModel]_vars

(***************************************************************************)
(* ModelDefinition.add_field, called up to MaxAdds times.                  *)
(***************************************************************************)
FieldChoices ==
    {FieldDefinition(fn, StrV(al), StrV(TxtString), NoneV) :
        fn \in {TxtName, <<"k">>}, al \in {<<"n">>, <<"m">>, TxtName}}
AddField ==
    /\ pc = "add_field"
    /\ Len(calls) < MaxAdds
    /\ \E field \in FieldChoices :
          /\ model' = add_field(model, field)
          /\ calls' = Append(calls, field)
    /\ UNCHANGED <<pc, text, lines, ln, stack, root, obj, registry, result, again>>
InitFields ==
    /\ pc = "add_field"
    /\ model = ModelDefinition(<<"m">>)
    /\ text = << >> /\ obj = EmptyMap /\ registry = NoneV
    /\ IdleParse /\ IdleResult
NextFields == AddField
SpecFields == InitFields /\ [][NextFields]_vars

(***************************************************************************)
(* _apply_model_to_dict(t, m), then again on its own result.  The trees    *)
(* hold up to MaxEntries keys among "name", "n" and "k", flat, inside a    *)
(* section and inside a list; the models declare "name" (alias "n" or its  *)
(* own name) with each field type, alone or beside a field "k".            *)
(***************************************************************************)
ApplyKeys == {TxtName, <<"n">>, <<"k">>}
ApplyScalars ==
    {StrV(<<"a", "b", "c">>), StrV(<<" ", "7">>), StrV(TxtTrue),
     StrV(<<"\"", "\"", "x", "\"", "\"">>), StrV(<<"\"", "x", " ", "\"">>),
     StrV(<<"1", ".", "5", "0">>),
     StrV(<<"2", "0", "2", "4", "-", "0", "1", "-", "0", "2">>),
     StrV(<<"2", "0", "2", "4", "-", "0", "1", "-", "0", "2", "T",
            "0", "3", ":", "0", "4", ":", "0", "5", "Z">>),
     IntV(7), BoolV(TRUE)}
FlatTrees == Dicts(ApplyKeys, ApplyScalars)
ApplyTrees ==
    FlatTrees
      \cup {MapV(<<[k |-> <<"s">>, x |-> d]>>) : d \in FlatTrees}
      \cup {MapV(<<[k |-> <<"l">>, x |-> ListV(<<d, StrV(<<"\"", "x", "\"">>)>>)]>>) :
               d \in {f \in FlatTrees : Len(f.v) <= 1}}
FieldTypes ==
    {StrV(TxtString), StrV(TxtBool), StrV(TxtInt), StrV(TxtFloat), StrV(TxtDate),
     StrV(TxtDatetime)}
ApplyModels ==
    {ModelDefinition(<<"m">>)}
      \cup {add_field(ModelDefinition(<<"m">>), FieldDefinition(TxtName, StrV(al), ft, NoneV)) :
               al \in {<<"n">>, TxtName}, ft \in FieldTypes}
      \cup {add_field(add_field(ModelDefinition(<<"m">>),
                          FieldDefinition(TxtName, StrV(<<"n">>), ft, NoneV)),
                      FieldDefinition(<<"k">>, StrV(<<"k">>), StrV(TxtString), NoneV)) :
               ft \in {StrV(TxtInt), StrV(TxtBool)}}

InitApply ==
    /\ pc = "apply"
    /\ obj \in ApplyTrees
    /\ model \in ApplyModels
    /\ text = << >> /\ registry = NoneV
    /\ IdleParse /\ IdleResult
\* result = _apply_model_to_dict(t, m)
ApplyOnce ==
    /\ pc = "apply"
    /\ result' = _apply_model_to_dict(obj, model)
    /\ pc' = "applied"
    /\ UNCHANGED <<text, lines, ln, stack, root, obj, registry, model, again, calls>>
\* again = _apply_model_to_dict(result, m)
ApplyAgain ==
    /\ pc = "applied"
    /\ again' = _apply_model_to_dict(result, model)
    /\ pc' = "reapplied"
    /\ UNCHANGED <<text, lines, ln, stack, root, obj, registry, model, result, calls>>
NextApply == ApplyOnce \/ ApplyAgain
SpecApply == InitApply /\ [][NextApply]_vars

(***************************************************************************)
(* Helpers of the properties: paths into a tree.                           *)
(***************************************************************************)
RECURSIVE HasPath(_, _)
HasPath(m, path) ==
    \/ path = << >>
    \/ /\ IsDict(m) /\ HasKey(m, Head(path))
       /\ HasPath(Get(m, Head(path)), Tail(path))
RECURSIVE At(_, _)
At(m, path) == IF path = << >> THEN m ELSE At(Get(m, Head(path)), Tail(path))
\* the paths of the mappings of a tree, the root's included
RECURSIVE MapPaths(_)
MapPaths(m) ==
    {<< >>} \cup UNION {{<<m.v[i].k>> \o q : q \in MapPaths(m.v[i].x)} :
                          i \in {j \in 1..Len(m.v) : IsDict(m.v[j].x)}}
Final(states) == pc \in states

(***************************************************************************)
(* ParseFlow: nesting and the indentation stack.                           *)
(***************************************************************************)
IsEntryLine(l) == IsSection(l) \/ Contains(Trimmed(l), "=")
LineKey(l) ==
    IF IsSection(l) THEN Strip(SubSeq(Trimmed(l), 1, Len(Trimmed(l)) - 1))
    ELSE Strip(SplitFirst(Trimmed(l), "=")[1])
LineRaw(l) == Strip(SplitFirst(Trimmed(l), "=")[2])
\* top-level lines at column 0, two spaces per level, and no line more than
\* one level deeper than the section header above it
WellIndented(ls) ==
    /\ \A j \in 1..Len(ls) : IsEntryLine(ls[j]) /\ Leading(ls[j]) = 2 * Indent(ls[j])
    /\ ls # << >> => Indent(ls[1]) = 0
    /\ \A j \in 2..Len(ls) :
          Indent(ls[j]) <= Indent(ls[j - 1]) + (IF IsSection(ls[j - 1]) THEN 1 ELSE 0)
\* the nearest preceding header one level shallower than line j
HeaderOf(ls, j) ==
    CHOOSE h \in 1..(j - 1) :
        /\ IsSection(ls[h]) /\ Indent(ls[h]) = Indent(ls[j]) - 1
        /\ \A g \in (h + 1)..(j - 1) :
              ~(IsSection(ls[g]) /\ Indent(ls[g]) = Indent(ls[j]) - 1)
RECURSIVE OwnerPath(_, _)
OwnerPath(ls, j) ==
    IF Indent(ls[j]) = 0 THEN << >>
    ELSE Append(OwnerPath(ls, HeaderOf(ls, j)), LineKey(ls[HeaderOf(ls, j)]))
StoredInOwner(ls, j, tree) ==
    /\ HasPath(tree, Append(OwnerPath(ls, j), LineKey(ls[j])))
    /\ At(tree, Append(OwnerPath(ls, j), LineKey(ls[j])))
          = IF IsSection(ls[j]) THEN EmptyMap ELSE _parse_value(LineRaw(ls[j]))
Doc4 ==
    <<"a", ":", "\n",
      " ", " ", "b", ":", "\n",
      " ", " ", " ", " ", "c", " ", "=", " ", "1", "\n",
      " ", " ", "d", " ", "=", " ", "2", "\n">>
Tree4 ==
    MapV(<<[k |-> <<"a">>,
            x |-> MapV(<<[k |-> <<"b">>, x |-> MapV(<<[k |-> <<"c">>, x |-> IntV(1)]>>)],
                         [k |-> <<"d">>, x |-> IntV(2)]>>)]>>)

\* C1: on a well-indented document ParseFlow stores every section header
\* and every assignment in the mapping of the nearest preceding header one
\* level shallower (the root at level 0), and the four-line document
\* a: / b: / c = 1 / d = 2 parses to {a: {b: {c: 1}, d: 2}}.
C1_NestsByIndentation ==
    /\ (Final({"loop", "parsed", "IndexError"}) /\ WellIndented(lines)) =>
          /\ pc # "IndexError"
          /\ ln > 1 => StoredInOwner(lines, ln - 1, root)
    /\ (text = Doc4 /\ Final({"parsed", "IndexError"})) => (pc = "parsed" /\ root = Tree4)

\* C9: after the pop step of every line, whatever its shape and
\* indentation, the stack still holds a frame: ParseFlow never fails on its
\* stack and returns a root mapping.
C9_StackNeverEmpty ==
    Final({"loop", "parsed", "IndexError"}) => (stack # << >> /\ pc # "IndexError")

(***************************************************************************)
(* StringifyFlow and the round trip.                                       *)
(***************************************************************************)
Wrapped(s, open, close) == Len(s) >= 2 /\ s[1] = open /\ s[Len(s)] = close
AmbiguousText(s) ==
    \/ s \in {TxtTrue, TxtFalse}
    \/ IsIntText(s) \/ IsFloatText(s)
    \/ Wrapped(s, "[", "]") \/ Wrapped(s, "\"", "\"")
    \/ \E c \in {"#", "=", ",", ":"} : Contains(s, c)
RECURSIVE Unambiguous(_)
Unambiguous(x) ==
    CASE x.t = "str" -> ~AmbiguousText(x.v)
      [] x.t = "list" -> \A i \in 1..Len(x.v) : Unambiguous(x.v[i])
      [] x.t = "map" -> \A i \in 1..Len(x.v) : Unambiguous(x.v[i].x)
      [] OTHER -> x.t \in {"bool", "int"}

\* C2: for a tree of mappings, lists, booleans, integers and unambiguous
\* strings, ParseFlow(StringifyFlow(t)) returns a tree equal to t.
C2_RoundTrip ==
    (Final({"parsed", "IndexError"}) /\ Unambiguous(obj)) =>
        (pc = "parsed" /\ PyEq(root, obj))

\* C7: the text StringifyFlow returns ends with exactly one newline: its
\* last character is a newline and the one before it, if any, is not.
C7_OneTrailingNewline ==
    ~Final({"StringifyFlow"}) =>
        /\ text # << >> /\ text[Len(text)] = "\n"
        /\ Len(text) >= 2 => text[Len(text) - 1] # "\n"

(***************************************************************************)
(* ParseFlowWithModel.                                                     *)
(***************************************************************************)
\* the registry in effect has no model of that name (no registry: no model)
Unregistered(name) == registry = NoneV \/ get_model(registry, name) = NoneV

\* C3: a call whose parsed document has a top-level use_model naming (as
\* text) no model of the registry in effect fails with the model-not-found
\* error and returns no tree, with the registry supplied, extracted from a
\* $models block, or absent.
C3_UnknownModelRaises ==
    (/\ Final({"returned", "ValueError", "TypeError"})
     /\ HasKey(root, TxtUseModel)
     /\ Get(root, TxtUseModel).t = "str"
     /\ Unregistered(Get(root, TxtUseModel))) => (pc = "ValueError" /\ result = NoneV)

\* C8: a tree returned by ParseFlowWithModel has neither a top-level
\* $models key nor a top-level use_model key.
C8_ReservedKeysStripped ==
    Final({"returned"}) => (~HasKey(result, TxtModels) /\ ~HasKey(result, TxtUseModel))

\* C4: under a selected model with the field "name", alias "n", an
\* assignment n = "X" of the document, at the top level or inside a
\* section, is in the returned tree under the key "name" (not "n") with the
\* value "X".
Selected == HasKey(model.alias_map, StrV(<<"n">>)) /\ FullName(model, <<"n">>) = TxtName
Document == Without(root, {TxtUseModel, TxtModels})
C4_AliasResolved ==
    (Final({"returned"}) /\ Selected) =>
        \A path \in MapPaths(Document) :
            (/\ HasKey(At(Document, path), <<"n">>)
             /\ Get(At(Document, path), <<"n">>) = StrV(<<"X">>)) =>
                /\ HasPath(result, Append(path, TxtName))
                /\ At(result, Append(path, TxtName)) = StrV(<<"X">>)
                /\ ~HasPath(result, Append(path, <<"n">>))

(***************************************************************************)
(* ModelDefinition.add_field.                                              *)
(***************************************************************************)
CurrentFields == {model.fields.v[i].x : i \in 1..Len(model.fields.v)}
\* the last call that registered the full name
LastCall(full_name) ==
    CHOOSE i \in 1..Len(calls) :
        /\ calls[i].full_name = full_name
        /\ \A j \in (i + 1)..Len(calls) : calls[j].full_name # full_name
\* among the current fields with that alias, the one registered last
LaterRegistered(alias) ==
    CHOOSE f \in CurrentFields :
        /\ f.alias = alias
        /\ \A g \in CurrentFields :
              g.alias = alias => LastCall(g.full_name) <= LastCall(f.full_name)
DerivedIndex == {<<f.alias, LaterRegistered(f.alias).full_name>> : f \in CurrentFields}
AliasIndex == {<<model.alias_map.v[i].k, model.alias_map.v[i].x>> : i \in 1..Len(model.alias_map.v)}

\* C10: after any sequence of add_field calls the alias index is the index
\* derived from the current fields: alias -> full_name for exactly the
\* aliases of the fields in fields, the later-registered field for a shared
\* alias.
C10_AliasIndexDerived == Final({"add_field"}) => AliasIndex = DerivedIndex

(***************************************************************************)
(* _apply_model_to_dict: idempotence and the fallback.                     *)
(***************************************************************************)
IsScalar(x) == ~IsDict(x) /\ ~IsList(x)
\* the entries _apply_model_to_dict visits: those of the mapping, of its
\* nested mappings and of the mappings inside its lists
RECURSIVE Entries(_)
Entries(d) ==
    UNION {{d.v[i]} \cup
             (IF IsDict(d.v[i].x) THEN Entries(d.v[i].x)
              ELSE IF IsList(d.v[i].x)
                   THEN UNION {Entries(d.v[i].x.v[j]) :
                                  j \in {h \in 1..Len(d.v[i].x.v) : IsDict(d.v[i].x.v[h])}}
                   ELSE {}) : i \in 1..Len(d.v)}
AliasesResolved(t, m) == \A e \in Entries(t) : FullName(m, e.k) = e.k
StrictTypes == {StrV(TxtBool), StrV(TxtInt), StrV(TxtFloat), StrV(TxtDate), StrV(TxtDatetime)}
Unquoted(s) == IF s # << >> /\ s[1] = "\"" /\ s[Len(s)] = "\"" THEN Inner(s) ELSE s
\* text that, trimmed and stripped of one layer of quotes, has no further
\* surrounding whitespace or quotes
SettledText(s) ==
    /\ Strip(Unquoted(Strip(s))) = Unquoted(Strip(s))
    /\ Unquoted(Unquoted(Strip(s))) = Unquoted(Strip(s))
StringsSettled(t, m) ==
    \A e \in Entries(t) :
        (/\ IsScalar(e.x)
         /\ HasKey(m.fields, FullName(m, e.k))
         /\ Get(m.fields, FullName(m, e.k)).field_type \notin StrictTypes)
            => SettledText(PyStr(e.x))

\* C5 as stated: with every alias of the tree already resolved, applying the
\* model to the applied tree changes nothing.
C5_Idempotent ==
    (Final({"reapplied"}) /\ AliasesResolved(obj, model)) => PyEq(again, result)

\* C5, amended: with every alias of the tree already resolved, and every
\* scalar held under a string-typed field being text that, trimmed and
\* stripped of one layer of quotes, has no further surrounding whitespace or
\* quotes, applying the model to the applied tree changes nothing.
C5_IdempotentSettledStrings ==
    (Final({"reapplied"}) /\ AliasesResolved(obj, model) /\ StringsSettled(obj, model))
        => PyEq(again, result)
\* a settled tree that the first application did change
C5_Witness ==
    /\ Final({"reapplied"}) /\ AliasesResolved(obj, model) /\ StringsSettled(obj, model)
    /\ result # obj /\ PyEq(again, result)

FailsTyped(m, full_name, value) ==
    /\ HasKey(m.fields, full_name)
    /\ ~_parse_typed_value(PyStr(value), Get(m.fields, full_name).field_type).ok
\* a later key of the same mapping resolves to the same full name
Overwritten(d, i, m) ==
    \E j \in (i + 1)..Len(d.v) : FullName(m, d.v[j].k) = FullName(m, d.v[i].k)
\* every scalar whose typed conversion fails is in the output, unchanged,
\* under its resolved key; with lastOnly, only where no later key overwrites it
RECURSIVE FallbackKept(_, _, _, _)
FallbackKept(d, res, m, lastOnly) ==
    \A i \in 1..Len(d.v) :
        LET value == d.v[i].x
            full_name == FullName(m, d.v[i].k)
        IN  \/ lastOnly /\ Overwritten(d, i, m)
            \/ /\ HasKey(res, full_name)
               /\ IF IsDict(value)
                  THEN /\ IsDict(Get(res, full_name))
                       /\ FallbackKept(value, Get(res, full_name), m, lastOnly)
                  ELSE IF IsList(value)
                  THEN /\ IsList(Get(res, full_name))
                       /\ Len(Get(res, full_name).v) = Len(value.v)
                       /\ \A j \in 1..Len(value.v) :
                             IsDict(value.v[j]) =>
                                /\ IsDict(Get(res, full_name).v[j])
                                /\ FallbackKept(value.v[j], Get(res, full_name).v[j], m,
                                                lastOnly)
                  ELSE FailsTyped(m, full_name, value) => Get(res, full_name) = value

\* C6 as stated: _apply_model_to_dict returns a mapping (it never raises),
\* and a scalar whose typed conversion fails is in the output, unchanged,
\* under its resolved canonical key.
C6_FallbackKeepsOriginal ==
    Final({"applied"}) => (IsDict(result) /\ FallbackKept(obj, result, model, FALSE))

\* C6, amended: _apply_model_to_dict returns a mapping (it never raises),
\* and a scalar whose typed conversion fails is in the output, unchanged,
\* under its resolved canonical key, unless a later key of the same mapping
\* resolves to the same canonical name and overwrites it.
C6_FallbackUnlessOverwritten ==
    Final({"applied"}) => (IsDict(result) /\ FallbackKept(obj, result, model, TRUE))
\* a conversion failed on an alias key that nothing overwrites
C6_Witness ==
    /\ Final({"applied"})
    /\ \E i \in 1..Len(obj.v) :
          /\ IsScalar(obj.v[i].x) /\ ~Overwritten(obj, i, model)
          /\ FullName(model, obj.v[i].k) # obj.v[i].k
          /\ FailsTyped(model, FullName(model, obj.v[i].k), obj.v[i].x)
          /\ Get(result, FullName(model, obj.v[i].k)) = obj.v[i].x

====
